---- MODULE Spec2Model ----
(***************************************************************************)
(* A model of the seek-emulating decompression cursor of                   *)
(* Stream-Compressed-FILE: the gzip cookie (zopenfile / zfile_read /       *)
(* zfile_seek) and the zstd cookie (zstdopen / zstdfile_read /             *)
(* zstdfile_seek).                                                         *)
(*                                                                         *)
(* A source file is a sequence of bytes.  The two external decompressors   *)
(* (zlib's inflate, ZSTD_decompressStream) are modelled by a small code in *)
(* which one compressed byte is one unit: a byte b in 0..2 decodes to b    *)
(* output bytes, a byte 8+k decodes to k output bytes and ends the deflate *)
(* stream (gzip) or the frame (zstd), every other byte is corrupt.  The    *)
(* j-th output byte of the p-th unit fed to a decoder since it was         *)
(* initialised has the value 10*p + j, so that every decoded byte is       *)
(* distinct and a lost, repeated or reordered byte shows.  A decode step   *)
(* consumes a unit only when the bytes it yields fit in the free part of   *)
(* the output buffer, and stops at the end of the stream / frame.          *)
(*                                                                         *)
(* The cookie's buffers are modelled by their live parts: outbuf is the    *)
(* bytes between outbuf[0] and next_out (obuf.pos), inbuf is the bytes     *)
(* between next_in and next_in + avail_in (ibuf.pos .. ibuf.size).         *)
(* Reads of the source never fail with an I/O error.                       *)
(***************************************************************************)
EXTENDS Integers, Sequences, FiniteSets, TLC

\* ------------------------------------------------------------- bounds
\* sizeof inbuf (32 KB in the gzip cookie, ZSTD_DStreamInSize() in zstd), scaled
InBufSz == 2
\* sizeof outbuf (256 KB in the gzip cookie, ZSTD_DStreamOutSize() in zstd), scaled
OutBufSz == 2
\* bsz, the scratch buffer of forward-seek emulation (32 KB), scaled
SeekBufSz == 2
\* largest size a caller passes to read
MaxRead == 3
\* largest offset a caller passes to seek
MaxSeek == 5

\* -------------------------------------------------- program constants
GZ_HDR_SZ == 10
GZ_TLR_SZ == 8
ZSTD_HDR_SZ == 4

gz_magic == <<31, 139, 8>>
\* ZSTD_MAGICNUMBER 0xFD2FB528, as the four little-endian bytes le32dec reads
ZSTD_MAGICNUMBER == <<40, 181, 47, 253>>

Min(a, b) == IF a < b THEN a ELSE b

Take(s, n) == SubSeq(s, 1, Min(n, Len(s)))
Drop(s, n) == SubSeq(s, Min(n, Len(s)) + 1, Len(s))

\* (uint32_t)x.  The checker's integers are 32-bit signed, so the width of
\* uint32_t is scaled to 16 bits; no length or checksum of the model reaches it.
U32(x) == x % (2 ^ 16)

\* le32toh / le32dec of four bytes, and the bytes of a 32-bit value
le32dec(b) == b[1] + 256 * b[2] + 65536 * b[3] + 16777216 * b[4]
le32enc(v) ==
  << v % 256, (v \div 256) % 256, (v \div 65536) % 256, (v \div 16777216) % 256 >>

\* crc32(crc, buf, len): a running checksum folded over the bytes of buf
RECURSIVE crc32(_, _)
crc32(crc, buf) ==
  IF buf = <<>> THEN crc
  ELSE crc32((crc * 3 + Head(buf)) % 65521, Tail(buf))

\* ------------------------------------------------------ the unit code
UnitValid(b) == b \in 0..2 \/ b \in 8..10
UnitFinal(b) == b \in 8..10
UnitYield(b) == IF b >= 8 THEN b - 8 ELSE b
\* the bytes unit number p decodes to
UnitBytes(p, b) == [j \in 1..UnitYield(b) |-> 10 * p + j]


\* ------------------------------------------------------ the decoders
\* inflateInit2(&decomp, -MAX_WBITS): a raw-deflate context, nothing consumed
inflateInit2 == [st |-> "body", n |-> 0, tin |-> 0]

\* inflate(&decomp, Z_NO_FLUSH) on input `inp` with `room` free output bytes:
\* [z, rest, out, ret].  In state "done" (after the final unit) it consumes
\* nothing, produces nothing and reports Z_STREAM_END again; a call that
\* consumes nothing and produces nothing otherwise reports Z_BUF_ERROR.
RECURSIVE inflateRun(_, _, _, _)
inflateRun(z, inp, out, room) ==
  IF z.st = "done" THEN [z |-> z, rest |-> inp, out |-> out, ret |-> "Z_STREAM_END"]
  ELSE IF inp = <<>> THEN [z |-> z, rest |-> inp, out |-> out, ret |-> "Z_OK"]
  ELSE IF ~UnitValid(Head(inp))
       THEN [z |-> z, rest |-> inp, out |-> out, ret |-> "Z_DATA_ERROR"]
  ELSE IF UnitYield(Head(inp)) > room - Len(out)
       THEN [z |-> z, rest |-> inp, out |-> out, ret |-> "Z_OK"]
  ELSE inflateRun([z EXCEPT !.st = IF UnitFinal(Head(inp)) THEN "done" ELSE "body",
                            !.tin = @ + 1],
                  Tail(inp), out \o UnitBytes(z.tin + 1, Head(inp)), room)

\* inflate's status for a run r over input inp
inflateStatus(r, inp) ==
  IF r.ret = "Z_OK" /\ r.rest = inp /\ r.out = <<>>
  THEN [r EXCEPT !.ret = "Z_BUF_ERROR"]
  ELSE r

inflate(z, inp, room) == inflateStatus(inflateRun(z, inp, <<>>, room), inp)

\* ZSTD_createDCtx + ZSTD_initDStream: between frames, nothing consumed
ZSTD_initDStream == [st |-> "hdr", n |-> 0, tin |-> 0]

\* ZSTD_decompressStream(decomp, &obuf, &ibuf): [z, rest, out, ret].  ret is 0
\* when a frame is completely decoded and flushed (the decoder is between
\* frames), positive when there is more to decode for the current frame, and
\* negative for an error code (ZSTD_isError).  A frame is the 4 magic bytes
\* followed by units up to a final unit.
RECURSIVE ZSTD_run(_, _, _, _)
ZSTD_run(z, inp, out, room) ==
  LET hint == IF z.st = "hdr" /\ z.n = 0 THEN 0 ELSE 1
  IN
  IF inp = <<>> THEN [z |-> z, rest |-> inp, out |-> out, ret |-> hint]
  ELSE IF z.st = "hdr"
       THEN IF Head(inp) # ZSTD_MAGICNUMBER[z.n + 1]
            THEN [z |-> z, rest |-> inp, out |-> out, ret |-> -1]
            ELSE ZSTD_run([z EXCEPT !.n = IF z.n + 1 = ZSTD_HDR_SZ THEN 0 ELSE z.n + 1,
                                    !.st = IF z.n + 1 = ZSTD_HDR_SZ THEN "body" ELSE "hdr",
                                    !.tin = @ + 1],
                          Tail(inp), out, room)
  ELSE IF ~UnitValid(Head(inp))
       THEN [z |-> z, rest |-> inp, out |-> out, ret |-> -1]
  ELSE IF UnitYield(Head(inp)) > room - Len(out)
       THEN [z |-> z, rest |-> inp, out |-> out, ret |-> hint]
  ELSE IF UnitFinal(Head(inp))
       THEN [z |-> [z EXCEPT !.st = "hdr", !.n = 0, !.tin = @ + 1],
             rest |-> Tail(inp),
             out |-> out \o UnitBytes(z.tin + 1, Head(inp)),
             ret |-> 0]
  ELSE ZSTD_run([z EXCEPT !.tin = @ + 1],
                Tail(inp), out \o UnitBytes(z.tin + 1, Head(inp)), room)

ZSTD_decompressStream(z, inp, room) == ZSTD_run(z, inp, <<>>, room)

ZSTD_isError(ret) == ret < 0


\* ------------------------------------------------------ the gzip cookie
\* zfile_zlib_init, called by zopenfile after the magic matched and by the
\* rewind branch of zfile_seek (after rewind(in)): offsets and actual_len to
\* 0, the source past the fixed header, a fresh inflate context with no
\* input and an empty output buffer, cursor 0, both flags clear, crc32(0).
zfile_zlib_init ==
  [ in_pos        |-> GZ_HDR_SZ,
    logic_offset  |-> 0,
    decode_offset |-> 0,
    actual_len    |-> 0,
    outbuf_start  |-> 0,
    outbuf        |-> <<>>,
    inbuf         |-> <<>>,
    decomp        |-> inflateInit2,
    crc           |-> 0,
    eof           |-> FALSE,
    truncated     |-> FALSE,
    ordered       |-> TRUE,
    within        |-> TRUE ]

\* fread(ptr, 1, n, in): the bytes read and the source's new position
fread(f, pos, n) ==
  LET nb == Min(n, Len(f) - pos)
  IN  [data |-> SubSeq(f, pos + 1, pos + nb), pos |-> pos + nb]

\* The result of a read or a seek: the cookie, the value returned, the bytes
\* copied to the caller's buffer, how the process goes on ("run", "exit" for
\* exit(1)/err(1), "abort" for a failed assert) and what was reported.
Result(c, rv, data, st, ev) ==
  [c |-> c, rv |-> rv, data |-> data, st |-> st, ev |-> ev]

\* A faulty variant of the drain loop: the bytes copied to the caller are not
\* added to logic_offset.  (One pass is the whole loop when nothing is to be
\* ignored: it ends with size = 0 or with the buffer drained.)
DrainOutput_uncounted(s) ==
  IF s.size > 0 /\ s.c.outbuf_start < Len(s.c.outbuf)
  THEN [c     |-> [s.c EXCEPT !.outbuf_start =
                                 @ + Min(Len(s.c.outbuf) - @, s.size),
                              !.decode_offset =
                                 @ + Min(Len(s.c.outbuf) - s.c.outbuf_start, s.size)],
        size  |-> s.size - Min(Len(s.c.outbuf) - s.c.outbuf_start, s.size),
        total |-> s.total + Min(Len(s.c.outbuf) - s.c.outbuf_start, s.size),
        buf   |-> s.buf \o SubSeq(s.c.outbuf, s.c.outbuf_start + 1,
                     s.c.outbuf_start
                       + Min(Len(s.c.outbuf) - s.c.outbuf_start, s.size)),
        ign   |-> s.ign]
  ELSE s

\* A faulty variant of the drain loop: the bytes copied to the caller are not
\* added to decode_offset.
DrainOutput_undecoded(s) ==
  IF s.size > 0 /\ s.c.outbuf_start < Len(s.c.outbuf)
  THEN [c     |-> [s.c EXCEPT !.outbuf_start =
                                 @ + Min(Len(s.c.outbuf) - @, s.size),
                              !.logic_offset =
                                 @ + Min(Len(s.c.outbuf) - s.c.outbuf_start, s.size),
                              !.ordered = @ /\ s.c.decode_offset >=
                                 s.c.logic_offset
                                   + Min(Len(s.c.outbuf) - s.c.outbuf_start, s.size)],
        size  |-> s.size - Min(Len(s.c.outbuf) - s.c.outbuf_start, s.size),
        total |-> s.total + Min(Len(s.c.outbuf) - s.c.outbuf_start, s.size),
        buf   |-> s.buf \o SubSeq(s.c.outbuf, s.c.outbuf_start + 1,
                     s.c.outbuf_start
                       + Min(Len(s.c.outbuf) - s.c.outbuf_start, s.size)),
        ign   |-> s.ign]
  ELSE s

\* "Drain output buffer first": the inner while loop of zfile_read and of
\* zstdfile_read (the two are the same code).  s = [c, size, total, buf, ign].
\* The cookie carries two observations that are not fields of the struct:
\* `ordered` stays TRUE as long as decode_offset >= logic_offset held after
\* every update of the offsets (also between the update of decode_offset and
\* that of logic_offset); `within` stays TRUE as long as the cursor and every
\* byte copied lay within the bytes the last decode step produced.
RECURSIVE DrainOutput(_)
DrainOutput(s) ==
  IF Len(s.c.outbuf) > s.c.outbuf_start
  THEN LET left0      == Len(s.c.outbuf) - s.c.outbuf_start
           ignoreskip == Min(s.ign, left0)
           ign1       == s.ign - ignoreskip
           left1      == left0 - ignoreskip
           c1 == [s.c EXCEPT !.outbuf_start = @ + ignoreskip,
                             !.decode_offset = @ + ignoreskip,
                             !.ordered = @ /\ s.c.decode_offset + ignoreskip
                                                >= s.c.logic_offset,
                             !.within = @ /\ s.c.outbuf_start + ignoreskip
                                               <= Len(s.c.outbuf)]
           toread == Min(left1, s.size)
           c2 == [c1 EXCEPT !.outbuf_start = @ + toread,
                            !.decode_offset = @ + toread,
                            !.logic_offset = @ + toread,
                            !.ordered = @ /\ c1.decode_offset + toread
                                                >= c1.logic_offset,
                            !.within = @ /\ c1.outbuf_start + toread
                                              <= Len(c1.outbuf)]
           s2 == [c     |-> c2,
                  size  |-> s.size - toread,
                  total |-> s.total + toread,
                  buf   |-> s.buf \o SubSeq(c1.outbuf, c1.outbuf_start + 1,
                                            c1.outbuf_start + toread),
                  ign   |-> ign1]
       IN  IF ign1 > 0 THEN [s EXCEPT !.c = c1, !.ign = ign1]
           ELSE IF s2.size = 0 THEN s2
           ELSE DrainOutput(s2)
  ELSE s

\* A faulty variant of the label `out`: a recorded truncation is not turned
\* into an error.
zfile_read_out_silent(c, total, buf, ev) ==
  IF total > 0 THEN Result(c, total, buf, "run", ev)
  ELSE Result(c, 0, buf, "run", ev)

\* A faulty variant of the label `out`: the truncation error is returned
\* without setting eof.
zfile_read_out_noeof(c, total, buf, ev) ==
  IF total > 0 THEN Result(c, total, buf, "run", ev)
  ELSE IF c.truncated
       THEN Result(c, -1, buf, "run", ev \cup {"ENOBUFS"})
  ELSE Result(c, 0, buf, "run", ev)

\* The label `out` of zfile_read: a short read if anything was copied, else
\* the truncation error (which also sets eof), else 0.
zfile_read_out(c, total, buf, ev) ==
  IF total > 0 THEN Result(c, total, buf, "run", ev)
  ELSE IF c.truncated
       THEN Result([c EXCEPT !.eof = TRUE], -1, buf, "run", ev \cup {"ENOBUFS"})
  ELSE Result(c, 0, buf, "run", ev)

\* A faulty variant of the trailer checks: the stored length is compared
\* with actual_len itself, not with its low 32 bits.
zfile_check_trailer_wide(c, gztlr, total, buf, ev) ==
  IF c.actual_len # le32dec(SubSeq(gztlr, 5, 8))
  THEN Result(c, 0, buf, "exit", ev \cup {"length_mismatch"})
  ELSE zfile_read_out(c, total, buf, ev)

\* The checks of the trailer block of zfile_read on the 8 trailer bytes
\* gztlr: a non-zero CRC is compared with the running one (a warning either
\* way, never a failure); a length that differs from (uint32_t)actual_len
\* ends the process.
zfile_check_trailer(c, gztlr, total, buf, ev) ==
  IF U32(c.actual_len) # le32dec(SubSeq(gztlr, 5, 8))
  THEN Result(c, 0, buf, "exit",
              ev \cup {"length_mismatch"}
                 \cup (IF le32dec(SubSeq(gztlr, 1, 4)) = 0 THEN {}
                       ELSE IF c.crc # le32dec(SubSeq(gztlr, 1, 4))
                       THEN {"crc_mismatch"} ELSE {"crc_good"}))
  ELSE zfile_read_out(c, total, buf,
              ev \cup (IF le32dec(SubSeq(gztlr, 1, 4)) = 0 THEN {}
                       ELSE IF c.crc # le32dec(SubSeq(gztlr, 1, 4))
                       THEN {"crc_mismatch"} ELSE {"crc_good"}))

\* A faulty variant of the trailer block: a short trailer is not recorded as
\* a truncation.
zfile_read_trailer_got_unrecorded(c, rd, total, buf, ev) ==
  IF Min(Len(c.inbuf), GZ_TLR_SZ) + Len(rd.data) < GZ_TLR_SZ
  THEN zfile_read_out([c EXCEPT !.in_pos = rd.pos], total, buf,
                      ev \cup {"lost_trailer"})
  ELSE zfile_check_trailer([c EXCEPT !.in_pos = rd.pos],
                           Take(c.inbuf, GZ_TLR_SZ) \o rd.data, total, buf, ev)

\* The trailer block of zfile_read once the trailer bytes were fetched: rd is
\* what the source gave for the bytes the unread input did not hold.  Fewer
\* than 8 bytes in all records truncation and leaves through `out`.
zfile_read_trailer_got(c, rd, total, buf, ev) ==
  IF Min(Len(c.inbuf), GZ_TLR_SZ) + Len(rd.data) < GZ_TLR_SZ
  THEN zfile_read_out([c EXCEPT !.in_pos = rd.pos, !.truncated = TRUE],
                      total, buf, ev \cup {"lost_trailer"})
  ELSE zfile_check_trailer([c EXCEPT !.in_pos = rd.pos],
                           Take(c.inbuf, GZ_TLR_SZ) \o rd.data, total, buf, ev)

\* The trailer block of zfile_read, run when the loop left with eof set: the
\* 8 trailer bytes are copied from the unread input (which stays unread) and,
\* if those are fewer than 8, the rest is read from the source.
zfile_read_trailer(f, c, total, buf, ev) ==
  zfile_read_trailer_got(c,
    fread(f, c.in_pos, GZ_TLR_SZ - Min(Len(c.inbuf), GZ_TLR_SZ)),
    total, buf, ev \cup {"trailer"})

\* What follows the do ... while loop of zfile_read.
zfile_read_after(f, c, total, buf, ev) ==
  IF c.eof THEN zfile_read_trailer(f, c, total, buf, ev)
  ELSE zfile_read_out(c, total, buf, ev)

\* "Read more input if empty": the refill of the input buffer from the source.
zfile_refill(f, c) ==
  IF c.inbuf = <<>>
  THEN [c EXCEPT !.inbuf = fread(f, c.in_pos, InBufSz).data,
                 !.in_pos = fread(f, c.in_pos, InBufSz).pos]
  ELSE c

\* A faulty variant of zfile_inflated: the cursor into the output buffer is
\* not put back to its start after the buffer was refilled.
zfile_inflated_stale_cursor(c, r) ==
  [c EXCEPT !.decomp = r.z,
            !.inbuf = r.rest,
            !.outbuf = r.out,
            !.actual_len = @ + Len(r.out),
            !.crc = crc32(@, r.out)]

\* A faulty variant of zfile_inflated: actual_len is advanced by the size of
\* the output buffer, not by the number of bytes inflate produced.
zfile_inflated_whole_buffer(c, r) ==
  [c EXCEPT !.decomp = r.z,
            !.inbuf = r.rest,
            !.outbuf = r.out,
            !.outbuf_start = 0,
            !.actual_len = @ + OutBufSz,
            !.crc = crc32(@, r.out)]

\* The cookie after an inflate call r: the decoder's state, the input left,
\* the output buffer refilled from its start, actual_len and crc advanced by
\* the bytes produced.
zfile_inflated(c, r) ==
  [c EXCEPT !.decomp = r.z,
            !.inbuf = r.rest,
            !.outbuf = r.out,
            !.outbuf_start = 0,
            !.actual_len = @ + Len(r.out),
            !.crc = crc32(@, r.out)]

\* The do ... while loop of zfile_read.  ret is the local that holds the
\* status of the last inflate call of this read call; s is the state after
\* the drain: [c, size, total, buf, ign].
RECURSIVE zfile_read_loop(_, _, _, _)
zfile_read_decode(f, s, c1, r, ev) ==
  IF r.ret \notin {"Z_OK", "Z_STREAM_END"}
  THEN Result([c1 EXCEPT !.outbuf = <<>>, !.outbuf_start = 0],
              0, s.buf, "exit", ev \cup {"inflate_error"})
  ELSE zfile_read_loop(f, [s EXCEPT !.c = zfile_inflated(c1, r)], r.ret,
                       ev \cup {"inflate"})

\* A faulty variant of the refill: when the source has no more data the
\* error is returned at once, whatever was already copied to the caller.
zfile_read_fill_drops(f, s, c1, ev) ==
  IF c1.inbuf = <<>>
  THEN Result([s.c EXCEPT !.truncated = TRUE, !.eof = TRUE], -1, <<>>, "run",
              ev \cup {"no_crc", "ENOBUFS"})
  ELSE zfile_read_decode(f, s, c1, inflate(c1.decomp, c1.inbuf, OutBufSz), ev)

zfile_read_fill(f, s, c1, ev) ==
  IF c1.inbuf = <<>>
  THEN zfile_read_out([s.c EXCEPT !.truncated = TRUE], s.total, s.buf,
                      ev \cup {"no_crc"})
  ELSE zfile_read_decode(f, s, c1, inflate(c1.decomp, c1.inbuf, OutBufSz), ev)

\* A faulty variant of the loop body: at the decoder's stream end eof is set
\* and the read returns without the trailer block.
zfile_read_step_nofinal(f, s, ret, ev) ==
  IF s.size = 0 THEN zfile_read_after(f, s.c, s.total, s.buf, ev)
  ELSE IF Len(s.c.outbuf) # s.c.outbuf_start
       THEN Result(s.c, 0, s.buf, "abort", ev \cup {"assert_outbuf_empty"})
  ELSE IF ret = "Z_STREAM_END"
       THEN zfile_read_out([s.c EXCEPT !.eof = TRUE], s.total, s.buf, ev)
  ELSE zfile_read_fill(f, s, zfile_refill(f, s.c), ev)

zfile_read_step(f, s, ret, ev) ==
  IF s.size = 0 THEN zfile_read_after(f, s.c, s.total, s.buf, ev)
  ELSE IF Len(s.c.outbuf) # s.c.outbuf_start
       THEN Result(s.c, 0, s.buf, "abort", ev \cup {"assert_outbuf_empty"})
  ELSE IF ret = "Z_STREAM_END"
       THEN zfile_read_after(f, [s.c EXCEPT !.eof = TRUE], s.total, s.buf, ev)
  ELSE zfile_read_fill(f, s, zfile_refill(f, s.c), ev)

zfile_read_loop(f, s0, ret, ev) == zfile_read_step(f, DrainOutput(s0), ret, ev)

\* A faulty variant of zfile_read: the eof flag is not looked at on entry.
zfile_read_past_eof(f, c, size) ==
  IF size = 0 THEN Result(c, 0, <<>>, "run", {})
  ELSE IF c.truncated THEN zfile_read_out(c, 0, <<>>, {})
  ELSE IF c.logic_offset - c.decode_offset # 0
       THEN Result(c, 0, <<>>, "abort", {"assert_ignorebytes"})
  ELSE zfile_read_loop(f,
         [c |-> c, size |-> size, total |-> 0, buf |-> <<>>,
          ign |-> c.logic_offset - c.decode_offset],
         "Z_OK", {})

\* zfile_read(cookie, buf, size)
zfile_read(f, c, size) ==
  IF size = 0 THEN Result(c, 0, <<>>, "run", {})
  ELSE IF c.eof THEN Result(c, 0, <<>>, "run", {})
  ELSE IF c.truncated THEN zfile_read_out(c, 0, <<>>, {})
  ELSE IF c.logic_offset - c.decode_offset # 0
       THEN Result(c, 0, <<>>, "abort", {"assert_ignorebytes"})
  ELSE zfile_read_loop(f,
         [c |-> c, size |-> size, total |-> 0, buf |-> <<>>,
          ign |-> c.logic_offset - c.decode_offset],
         "Z_OK", {})

\* The result of a seek: Result plus the offset written back through *offset
\* (`off`, meaningful when rv = 0), the number of bytes the emulation
\* discarded, the number of discard reads that returned an error, and
\* whether the cookie was rewound.
SeekResult(c, rv, off, st, ev, nskip, nerr, rewound) ==
  [c |-> c, rv |-> rv, off |-> off, st |-> st, ev |-> ev,
   nskip |-> nskip, nerr |-> nerr, rewound |-> rewound]

\* The assertion logic_offset == new_offset and the write-back *offset =
\* new_offset at the end of zfile_seek.
zfile_seek_done(c, new_offset, ev, nskip, rewound) ==
  IF c.logic_offset # new_offset
  THEN SeekResult(c, -1, new_offset, "abort", ev \cup {"assert_offset"},
                  nskip, 0, rewound)
  ELSE SeekResult(c, 0, new_offset, "run", ev, nskip, 0, rewound)

\* "Emulate forward seek by skipping": the while loop of zfile_seek.  r is
\* what the discard read of one iteration returned.
RECURSIVE zfile_seek_skip(_, _, _, _, _)
\* A faulty variant of the emulation loop: reaching the end of the data
\* before the target is an error instead of a clamp.
zfile_seek_skipped_noclamp(f, r, new_offset, nskip, ev) ==
  IF r.st # "run"
  THEN SeekResult(r.c, -1, new_offset, r.st, ev \cup r.ev, nskip, 0, FALSE)
  ELSE IF r.rv <= 0
  THEN SeekResult(r.c, -1, new_offset, "run", ev \cup r.ev, nskip,
                  IF r.rv < 0 THEN 1 ELSE 0, FALSE)
  ELSE zfile_seek_skip(f, r.c, new_offset, nskip + r.rv, ev \cup r.ev)

zfile_seek_skipped(f, r, new_offset, nskip, ev) ==
  IF r.st # "run"
  THEN SeekResult(r.c, -1, new_offset, r.st, ev \cup r.ev, nskip, 0, FALSE)
  ELSE IF r.rv < 0
  THEN SeekResult(r.c, -1, new_offset, "run", ev \cup r.ev, nskip, 1, FALSE)
  ELSE IF r.rv = 0
  THEN IF ~r.c.eof
       THEN SeekResult(r.c, -1, new_offset, "abort",
                       ev \cup r.ev \cup {"assert_eof"}, nskip, 0, FALSE)
       ELSE zfile_seek_done(r.c, r.c.logic_offset,
                            ev \cup r.ev \cup {"clamped"}, nskip, FALSE)
  ELSE zfile_seek_skip(f, r.c, new_offset, nskip + r.rv, ev \cup r.ev)

zfile_seek_skip(f, c, new_offset, nskip, ev) ==
  IF new_offset > c.logic_offset
  THEN zfile_seek_skipped(f,
         zfile_read(f, c, Min(SeekBufSz, new_offset - c.logic_offset)),
         new_offset, nskip, ev)
  ELSE zfile_seek_done(c, new_offset, ev, nskip, FALSE)

\* The resolved target of a seek: new_offset
SeekTarget(c, offset, whence) ==
  IF whence = "SEEK_SET" THEN offset ELSE c.logic_offset + offset

\* A faulty variant of zfile_seek: the rewind branch puts the offsets back to
\* 0 but does not build the decoder and the flags anew.
zfile_seek_stale_rewind(f, c, offset, whence) ==
  IF whence \notin {"SEEK_SET", "SEEK_CUR"}
  THEN SeekResult(c, -1, offset, "run", {"rejected"}, 0, 0, FALSE)
  ELSE IF SeekTarget(c, offset, whence) < 0
  THEN SeekResult(c, -1, offset, "run", {"rejected"}, 0, 0, FALSE)
  ELSE IF SeekTarget(c, offset, whence) < c.logic_offset
          /\ SeekTarget(c, offset, whence) # 0
  THEN SeekResult(c, -1, offset, "run", {"rejected"}, 0, 0, FALSE)
  ELSE IF SeekTarget(c, offset, whence) = 0
  THEN zfile_seek_done([c EXCEPT !.in_pos = GZ_HDR_SZ, !.logic_offset = 0,
                                 !.decode_offset = 0],
                       0, {"rewind"}, 0, TRUE)
  ELSE zfile_seek_skip(f, c, SeekTarget(c, offset, whence), 0, {})

\* zfile_seek(cookie, &offset, whence)
zfile_seek(f, c, offset, whence) ==
  IF whence \notin {"SEEK_SET", "SEEK_CUR"}
  THEN SeekResult(c, -1, offset, "run", {"rejected"}, 0, 0, FALSE)
  ELSE IF SeekTarget(c, offset, whence) < 0
  THEN SeekResult(c, -1, offset, "run", {"rejected"}, 0, 0, FALSE)
  ELSE IF SeekTarget(c, offset, whence) < c.logic_offset
          /\ SeekTarget(c, offset, whence) # 0
  THEN SeekResult(c, -1, offset, "run", {"rejected"}, 0, 0, FALSE)
  ELSE IF SeekTarget(c, offset, whence) = 0
  THEN zfile_seek_done(zfile_zlib_init, 0, {"rewind"}, 0, TRUE)
  ELSE zfile_seek_skip(f, c, SeekTarget(c, offset, whence), 0, {})

\* ------------------------------------------------------ the zstd cookie
\* zstdopen / the rewind branch of zstdfile_seek set both offsets to 0 and
\* rewind the source; zstdfile_init then clears actual_len, creates a fresh
\* decompression context and empty buffers, cursor 0, eof clear.  The zstd
\* cookie has no crc and no truncated flag: they stay 0 and FALSE.
zstdfile_init ==
  [ in_pos        |-> 0,
    logic_offset  |-> 0,
    decode_offset |-> 0,
    actual_len    |-> 0,
    outbuf_start  |-> 0,
    outbuf        |-> <<>>,
    inbuf         |-> <<>>,
    decomp        |-> ZSTD_initDStream,
    crc           |-> 0,
    eof           |-> FALSE,
    truncated     |-> FALSE,
    ordered       |-> TRUE,
    within        |-> TRUE ]

\* "Read more input if empty": the refill of the input buffer from the source.
zstdfile_refill(f, c) ==
  IF c.inbuf = <<>>
  THEN [c EXCEPT !.inbuf = fread(f, c.in_pos, InBufSz).data,
                 !.in_pos = fread(f, c.in_pos, InBufSz).pos]
  ELSE c

\* The cookie after a ZSTD_decompressStream call r: the decoder's state, the
\* input left, the output buffer refilled from its start, actual_len advanced.
zstdfile_inflated(c, r) ==
  [c EXCEPT !.decomp = r.z,
            !.inbuf = r.rest,
            !.outbuf = r.out,
            !.outbuf_start = 0,
            !.actual_len = @ + Len(r.out)]

\* The do ... while loop of zstdfile_read.  ret is the local that holds the
\* result of the last ZSTD_decompressStream call of this read call; s is the
\* state after the drain: [c, size, total, buf, ign].
RECURSIVE zstdfile_read_loop(_, _, _, _)
zstdfile_read_decode(f, s, c1, r, ev) ==
  IF ZSTD_isError(r.ret)
  THEN Result([c1 EXCEPT !.outbuf = <<>>, !.outbuf_start = 0],
              0, s.buf, "exit", ev \cup {"zstd_error"})
  ELSE zstdfile_read_loop(f, [s EXCEPT !.c = zstdfile_inflated(c1, r)], r.ret,
                          ev \cup {"decompress"})

zstdfile_read_fill(f, s, c1, ev) ==
  IF c1.inbuf = <<>>
  THEN Result(s.c, 0, s.buf, "exit", ev \cup {"truncated_file"})
  ELSE zstdfile_read_decode(f, s, c1,
         ZSTD_decompressStream(c1.decomp, c1.inbuf, OutBufSz), ev)

zstdfile_read_step(f, s, ret, ev) ==
  IF s.size = 0 THEN Result(s.c, s.total, s.buf, "run", ev)
  ELSE IF Len(s.c.outbuf) # s.c.outbuf_start
       THEN Result(s.c, 0, s.buf, "abort", ev \cup {"assert_outbuf_empty"})
  ELSE IF ret = 0 /\ s.c.inbuf = <<>> /\ s.c.in_pos = Len(f)
       THEN Result([s.c EXCEPT !.eof = TRUE], s.total, s.buf, "run", ev)
  ELSE zstdfile_read_fill(f, s, zstdfile_refill(f, s.c), ev)

zstdfile_read_loop(f, s0, ret, ev) ==
  zstdfile_read_step(f, DrainOutput(s0), ret, ev)

\* zstdfile_read(cookie, buf, size)
zstdfile_read(f, c, size) ==
  IF size = 0 THEN Result(c, 0, <<>>, "run", {})
  ELSE IF c.eof THEN Result(c, 0, <<>>, "run", {})
  ELSE IF c.logic_offset - c.decode_offset # 0
       THEN Result(c, 0, <<>>, "abort", {"assert_ignorebytes"})
  ELSE zstdfile_read_loop(f,
         [c |-> c, size |-> size, total |-> 0, buf |-> <<>>,
          ign |-> c.logic_offset - c.decode_offset],
         0, {})

\* The assertion logic_offset == new_offset and the write-back *offset_ =
\* new_offset at the end of zstdfile_seek.
zstdfile_seek_done(c, new_offset, ev, nskip, rewound) ==
  IF c.logic_offset # new_offset
  THEN SeekResult(c, -1, new_offset, "abort", ev \cup {"assert_offset"},
                  nskip, 0, rewound)
  ELSE SeekResult(c, 0, new_offset, "run", ev, nskip, 0, rewound)

\* "Emulate forward seek by skipping": the while loop of zstdfile_seek.  r
\* is what the discard read of one iteration returned.
RECURSIVE zstdfile_seek_skip(_, _, _, _, _)
\* A faulty variant of the emulation loop: at the end of the data the target
\* is not clamped to the offset reached.
zstdfile_seek_skipped_unclamped(f, r, new_offset, nskip, ev) ==
  IF r.st # "run"
  THEN SeekResult(r.c, -1, new_offset, r.st, ev \cup r.ev, nskip, 0, FALSE)
  ELSE IF r.rv < 0
  THEN SeekResult(r.c, -1, new_offset, "run", ev \cup r.ev, nskip, 1, FALSE)
  ELSE IF r.rv = 0
  THEN zstdfile_seek_done(r.c, new_offset, ev \cup r.ev \cup {"clamped"},
                          nskip, FALSE)
  ELSE zstdfile_seek_skip(f, r.c, new_offset, nskip + r.rv, ev \cup r.ev)

zstdfile_seek_skipped(f, r, new_offset, nskip, ev) ==
  IF r.st # "run"
  THEN SeekResult(r.c, -1, new_offset, r.st, ev \cup r.ev, nskip, 0, FALSE)
  ELSE IF r.rv < 0
  THEN SeekResult(r.c, -1, new_offset, "run", ev \cup r.ev, nskip, 1, FALSE)
  ELSE IF r.rv = 0
  THEN IF ~r.c.eof
       THEN SeekResult(r.c, -1, new_offset, "abort",
                       ev \cup r.ev \cup {"assert_eof"}, nskip, 0, FALSE)
       ELSE zstdfile_seek_done(r.c, r.c.logic_offset,
                               ev \cup r.ev \cup {"clamped"}, nskip, FALSE)
  ELSE zstdfile_seek_skip(f, r.c, new_offset, nskip + r.rv, ev \cup r.ev)

zstdfile_seek_skip(f, c, new_offset, nskip, ev) ==
  IF new_offset > c.logic_offset
  THEN zstdfile_seek_skipped(f,
         zstdfile_read(f, c, Min(SeekBufSz, new_offset - c.logic_offset)),
         new_offset, nskip, ev)
  ELSE zstdfile_seek_done(c, new_offset, ev, nskip, FALSE)

\* A faulty variant of zstdfile_seek: any backward target rewinds.
zstdfile_seek_rewinds(f, c, offset, whence) ==
  IF whence \notin {"SEEK_SET", "SEEK_CUR"}
  THEN SeekResult(c, -1, offset, "run", {"rejected"}, 0, 0, FALSE)
  ELSE IF SeekTarget(c, offset, whence) < 0
  THEN SeekResult(c, -1, offset, "run", {"rejected"}, 0, 0, FALSE)
  ELSE IF SeekTarget(c, offset, whence) < c.logic_offset
  THEN zstdfile_seek_skip(f, zstdfile_init,
                          SeekTarget(c, offset, whence), 0, {"rewind"})
  ELSE zstdfile_seek_skip(f, c, SeekTarget(c, offset, whence), 0, {})

\* zstdfile_seek(cookie, &offset, whence)
zstdfile_seek(f, c, offset, whence) ==
  IF whence \notin {"SEEK_SET", "SEEK_CUR"}
  THEN SeekResult(c, -1, offset, "run", {"rejected"}, 0, 0, FALSE)
  ELSE IF SeekTarget(c, offset, whence) < 0
  THEN SeekResult(c, -1, offset, "run", {"rejected"}, 0, 0, FALSE)
  ELSE IF SeekTarget(c, offset, whence) < c.logic_offset
          /\ SeekTarget(c, offset, whence) # 0
  THEN SeekResult(c, -1, offset, "run", {"rejected"}, 0, 0, FALSE)
  ELSE IF SeekTarget(c, offset, whence) = 0
  THEN zstdfile_seek_done(zstdfile_init, 0, {"rewind"}, 0, TRUE)
  ELSE zstdfile_seek_skip(f, c, SeekTarget(c, offset, whence), 0, {})

\* ------------------------------------------------------ the gzip cookie of zfile.c
\* The older gzip cookie (src/zfile.c).  It has no crc and no truncated
\* field, ends the process where the newer one records a truncation, and its
\* read loop also stops once the source's end-of-file indicator is set.
\* in_eof is that indicator (feof(cookie->in)).
\* zfile_zlib_init of zfile.c, with the offsets its callers cleared; the
\* fseeko to GZ_HDR_SZ clears the end-of-file indicator.
zfile_c_init ==
  [ in_pos        |-> GZ_HDR_SZ,
    in_eof        |-> FALSE,
    logic_offset  |-> 0,
    decode_offset |-> 0,
    actual_len    |-> 0,
    outbuf_start  |-> 0,
    outbuf        |-> <<>>,
    inbuf         |-> <<>>,
    decomp        |-> inflateInit2,
    eof           |-> FALSE,
    ordered       |-> TRUE,
    within        |-> TRUE ]

\* fread(ptr, 1, n, in) with the end-of-file indicator: a read that gets
\* fewer than n bytes sets it.
fread_eof(f, pos, n) ==
  [data |-> fread(f, pos, n).data, pos |-> fread(f, pos, n).pos,
   eof |-> Len(f) - pos < n]

\* The trailer checks of zfile.c on the 8 trailer bytes: a non-zero CRC field
\* ends the process, and so does a length that differs from
\* (uint32_t)actual_len; otherwise the read returns total.
zfile_c_check_trailer(c, gztlr, total, buf, ev) ==
  IF le32dec(SubSeq(gztlr, 1, 4)) # 0
  THEN Result(c, 0, buf, "exit", ev \cup {"crc_nonzero"})
  ELSE IF U32(c.actual_len) # le32dec(SubSeq(gztlr, 5, 8))
  THEN Result(c, 0, buf, "exit", ev \cup {"length_mismatch"})
  ELSE Result(c, total, buf, "run", ev)

\* The trailer block of zfile.c once the trailer bytes were fetched; fewer
\* than 8 bytes in all ends the process ("core truncated").
zfile_c_read_trailer_got(c, rd, total, buf, ev) ==
  IF Min(Len(c.inbuf), GZ_TLR_SZ) + Len(rd.data) < GZ_TLR_SZ
  THEN Result([c EXCEPT !.in_pos = rd.pos, !.in_eof = TRUE], 0, buf, "exit",
              ev \cup {"core_truncated"})
  ELSE zfile_c_check_trailer(
         [c EXCEPT !.in_pos = rd.pos, !.in_eof = @ \/ rd.eof],
         Take(c.inbuf, GZ_TLR_SZ) \o rd.data, total, buf, ev)

zfile_c_read_trailer(f, c, total, buf, ev) ==
  zfile_c_read_trailer_got(c,
    fread_eof(f, c.in_pos, GZ_TLR_SZ - Min(Len(c.inbuf), GZ_TLR_SZ)),
    total, buf, ev \cup {"trailer"})

\* What follows the do ... while loop of zfile_read in zfile.c.
zfile_c_read_after(f, c, total, buf, ev) ==
  IF c.eof THEN zfile_c_read_trailer(f, c, total, buf, ev)
  ELSE Result(c, total, buf, "run", ev)

\* "Read more input if empty" in zfile.c; rd is what fread gave.
zfile_c_refilled(c, rd) ==
  [c EXCEPT !.inbuf = rd.data, !.in_pos = rd.pos, !.in_eof = @ \/ rd.eof]

zfile_c_refill(f, c) ==
  IF c.inbuf = <<>> THEN zfile_c_refilled(c, fread_eof(f, c.in_pos, InBufSz))
  ELSE c

\* The cookie after an inflate call r in zfile.c.
zfile_c_inflated(c, r) ==
  [c EXCEPT !.decomp = r.z,
            !.inbuf = r.rest,
            !.outbuf = r.out,
            !.outbuf_start = 0,
            !.actual_len = @ + Len(r.out)]

\* The do ... while loop of zfile_read in zfile.c: it goes round again only
\* while the source's end-of-file indicator is clear and size > 0.
RECURSIVE zfile_c_read_loop(_, _, _, _)
zfile_c_read_again(f, s, c2, ret, ev) ==
  IF ~c2.in_eof /\ s.size > 0
  THEN zfile_c_read_loop(f, [s EXCEPT !.c = c2], ret, ev)
  ELSE zfile_c_read_after(f, c2, s.total, s.buf, ev)

zfile_c_read_decode(f, s, c1, r, ev) ==
  IF r.ret \notin {"Z_OK", "Z_STREAM_END"}
  THEN Result([c1 EXCEPT !.outbuf = <<>>, !.outbuf_start = 0],
              0, s.buf, "exit", ev \cup {"inflate_error"})
  ELSE zfile_c_read_again(f, s, zfile_c_inflated(c1, r), r.ret,
                          ev \cup {"inflate"})

zfile_c_read_fill(f, s, c1, ev) ==
  IF c1.inbuf = <<>>
  THEN Result(c1, 0, s.buf, "exit", ev \cup {"truncated_file"})
  ELSE zfile_c_read_decode(f, s, c1,
                           inflate(c1.decomp, c1.inbuf, OutBufSz), ev)

zfile_c_read_step(f, s, ret, ev) ==
  IF s.size = 0 THEN zfile_c_read_after(f, s.c, s.total, s.buf, ev)
  ELSE IF Len(s.c.outbuf) # s.c.outbuf_start
       THEN Result(s.c, 0, s.buf, "abort", ev \cup {"assert_outbuf_empty"})
  ELSE IF ret = "Z_STREAM_END"
       THEN zfile_c_read_after(f, [s.c EXCEPT !.eof = TRUE], s.total, s.buf, ev)
  ELSE zfile_c_read_fill(f, s, zfile_c_refill(f, s.c), ev)

zfile_c_read_loop(f, s0, ret, ev) ==
  zfile_c_read_step(f, DrainOutput(s0), ret, ev)

\* zfile_read(cookie, buf, size) of zfile.c
zfile_c_read(f, c, size) ==
  IF size = 0 THEN Result(c, 0, <<>>, "run", {})
  ELSE IF c.eof THEN Result(c, 0, <<>>, "run", {})
  ELSE IF c.logic_offset - c.decode_offset # 0
       THEN Result(c, 0, <<>>, "abort", {"assert_ignorebytes"})
  ELSE zfile_c_read_loop(f,
         [c |-> c, size |-> size, total |-> 0, buf |-> <<>>,
          ign |-> c.logic_offset - c.decode_offset],
         "Z_OK", {})

\* The assertion and the write-back at the end of zfile_seek in zfile.c.
zfile_c_seek_done(c, new_offset, ev, nskip, rewound) ==
  IF c.logic_offset # new_offset
  THEN SeekResult(c, -1, new_offset, "abort", ev \cup {"assert_offset"},
                  nskip, 0, rewound)
  ELSE SeekResult(c, 0, new_offset, "run", ev, nskip, 0, rewound)

\* "Emulate forward seek by skipping" in zfile.c.
RECURSIVE zfile_c_seek_skip(_, _, _, _, _)
zfile_c_seek_skipped(f, r, new_offset, nskip, ev) ==
  IF r.st # "run"
  THEN SeekResult(r.c, -1, new_offset, r.st, ev \cup r.ev, nskip, 0, FALSE)
  ELSE IF r.rv < 0
  THEN SeekResult(r.c, -1, new_offset, "run", ev \cup r.ev, nskip, 1, FALSE)
  ELSE IF r.rv = 0
  THEN IF ~r.c.eof
       THEN SeekResult(r.c, -1, new_offset, "abort",
                       ev \cup r.ev \cup {"assert_eof"}, nskip, 0, FALSE)
       ELSE zfile_c_seek_done(r.c, r.c.logic_offset,
                              ev \cup r.ev \cup {"clamped"}, nskip, FALSE)
  ELSE zfile_c_seek_skip(f, r.c, new_offset, nskip + r.rv, ev \cup r.ev)

zfile_c_seek_skip(f, c, new_offset, nskip, ev) ==
  IF new_offset > c.logic_offset
  THEN zfile_c_seek_skipped(f,
         zfile_c_read(f, c, Min(SeekBufSz, new_offset - c.logic_offset)),
         new_offset, nskip, ev)
  ELSE zfile_c_seek_done(c, new_offset, ev, nskip, FALSE)

\* zfile_seek(cookie, &offset, whence) of zfile.c
zfile_c_seek(f, c, offset, whence) ==
  IF whence \notin {"SEEK_SET", "SEEK_CUR"}
  THEN SeekResult(c, -1, offset, "run", {"rejected"}, 0, 0, FALSE)
  ELSE IF SeekTarget(c, offset, whence) < 0
  THEN SeekResult(c, -1, offset, "run", {"rejected"}, 0, 0, FALSE)
  ELSE IF SeekTarget(c, offset, whence) < c.logic_offset
          /\ SeekTarget(c, offset, whence) # 0
  THEN SeekResult(c, -1, offset, "run", {"rejected"}, 0, 0, FALSE)
  ELSE IF SeekTarget(c, offset, whence) = 0
  THEN zfile_c_seek_done(zfile_c_init, 0, {"rewind"}, 0, TRUE)
  ELSE zfile_c_seek_skip(f, c, SeekTarget(c, offset, whence), 0, {})

\* ------------------------------------------------------ open
\* What an open returns: res is "null" (no stream), "source" (the original
\* source, no decompression layer) or "cookie" (the wrapped stream); flag is
\* what was written to *was_gzipped / *was_zstd ("unset" if nothing was);
\* c is the cookie, or just the position of the source when there is none.
OpenResult(res, flag, c) == [res |-> res, flag |-> flag, c |-> c]

\* A faulty variant of zopenfile: the source is not rewound when the magic
\* does not match.
zopenfile_norewind(f) ==
  IF Len(fread(f, 0, GZ_HDR_SZ).data) < GZ_HDR_SZ
  THEN OpenResult("null", "unset", [in_pos |-> fread(f, 0, GZ_HDR_SZ).pos])
  ELSE IF Take(fread(f, 0, GZ_HDR_SZ).data, Len(gz_magic)) # gz_magic
  THEN OpenResult("source", "false", [in_pos |-> fread(f, 0, GZ_HDR_SZ).pos])
  ELSE OpenResult("cookie", "true", zfile_zlib_init)

\* zopenfile(in, "r", &was_gzipped): the header is read from the start of
\* the source; a short header fails, a header without the magic rewinds the
\* source and returns it, the magic gives the cookie.
zopenfile(f) ==
  IF Len(fread(f, 0, GZ_HDR_SZ).data) < GZ_HDR_SZ
  THEN OpenResult("null", "unset", [in_pos |-> fread(f, 0, GZ_HDR_SZ).pos])
  ELSE IF Take(fread(f, 0, GZ_HDR_SZ).data, Len(gz_magic)) # gz_magic
  THEN OpenResult("source", "false", [in_pos |-> 0])
  ELSE OpenResult("cookie", "true", zfile_zlib_init)

\* zstdopen(path, "r", &was_zstd): as zopenfile, with the 4-byte header; the
\* source is rewound before the magic is looked at, and closed on failure.
\* le32dec(hdr) != ZSTD_MAGICNUMBER is the comparison of the 4 header bytes
\* with the little-endian bytes of the magic number.
zstdopen(f) ==
  IF Len(fread(f, 0, ZSTD_HDR_SZ).data) < ZSTD_HDR_SZ
  THEN OpenResult("null", "unset", [in_pos |-> fread(f, 0, ZSTD_HDR_SZ).pos])
  ELSE IF fread(f, 0, ZSTD_HDR_SZ).data # ZSTD_MAGICNUMBER
  THEN OpenResult("source", "false", [in_pos |-> 0])
  ELSE OpenResult("cookie", "true", zstdfile_init)

\* ------------------------------------------------------ the sources
\* A gzip file: the 10-byte header (the magic and 7 more bytes), the deflate
\* body, the 8-byte trailer (CRC32, length mod 2^32, little-endian).
GzHeader == gz_magic \o <<0, 0, 0, 0, 0, 0, 0>>

\* What inflate yields for the whole of `inp` given room for all of it.
InflateAll(inp) == inflateRun(inflateInit2, inp, <<>>, 2 * Len(inp) + 1)

GzTrailer(body, crc, len) == le32enc(crc) \o le32enc(len)
GzGoodTrailer(body) ==
  GzTrailer(body, crc32(0, InflateAll(body).out), Len(InflateAll(body).out))

GzBodies == { <<2, 1, 9>>, <<1, 0, 2, 8>> }

GzFiles ==
     { GzHeader \o b \o GzGoodTrailer(b) : b \in GzBodies }
\cup { GzHeader \o <<2, 1, 9>> \o GzGoodTrailer(<<2, 1, 9>>) \o <<5, 5, 5>> }
\cup { GzHeader \o b \o Take(GzGoodTrailer(b), k) : b \in GzBodies, k \in {0, 3, 7} }
\cup { GzHeader \o Take(b, k) : b \in GzBodies, k \in 0..2 }
\cup { GzHeader \o <<2, 1, 9>> \o GzTrailer(<<2, 1, 9>>, 0, 4),
       GzHeader \o <<2, 1, 9>> \o GzTrailer(<<2, 1, 9>>, 77, 4),
       GzHeader \o <<2, 1, 9>> \o GzTrailer(<<2, 1, 9>>, 0, 3),
       GzHeader \o <<2, 7, 9>> \o GzTrailer(<<2, 7, 9>>, 0, 2) }

\* A zstd file: frames, each the 4 magic bytes and units up to a final unit.
ZstdFiles ==
  { ZSTD_MAGICNUMBER \o <<2, 1, 9>>,
    ZSTD_MAGICNUMBER \o <<2, 8>> \o ZSTD_MAGICNUMBER \o <<1, 9>>,
    ZSTD_MAGICNUMBER \o <<8>>,
    ZSTD_MAGICNUMBER \o <<2, 1>>,
    ZSTD_MAGICNUMBER \o <<2, 8>> \o <<40, 181>>,
    ZSTD_MAGICNUMBER \o <<1, 9>> \o <<7>>,
    ZSTD_MAGICNUMBER \o <<2, 7>>,
    ZSTD_MAGICNUMBER }

\* What ZSTD_decompressStream yields for the whole of `inp`, frame after
\* frame, given room for all of it: [out, z, rest, ret].
RECURSIVE ZstdAll(_, _, _)
ZstdAll(z, inp, out) ==
  LET r == ZSTD_run(z, inp, <<>>, 2 * Len(inp) + 1)
  IN  IF ZSTD_isError(r.ret) \/ r.rest = <<>> \/ r.rest = inp
      THEN [out |-> out \o r.out, z |-> r.z, rest |-> r.rest, ret |-> r.ret]
      ELSE ZstdAll(r.z, r.rest, out \o r.out)

\* The decode engine's complete output for a source.
DecodedOutput(k, f) ==
  IF k # "zstd" THEN InflateAll(Drop(f, GZ_HDR_SZ)).out
  ELSE ZstdAll(ZSTD_initDStream, f, <<>>).out

\* A gzip source whose deflate body is complete.
GzBodyComplete(f) == InflateAll(Drop(f, GZ_HDR_SZ)).ret = "Z_STREAM_END"
\* ... whose body ends before the decoder reports stream end (no corruption).
GzBodyTruncated(f) == InflateAll(Drop(f, GZ_HDR_SZ)).ret = "Z_OK"
\* ... whose body is complete and followed by fewer than 8 bytes.
GzLostTrailer(f) ==
  GzBodyComplete(f) /\ Len(InflateAll(Drop(f, GZ_HDR_SZ)).rest) < GZ_TLR_SZ
\* A valid, complete source: gzip with a complete body, a whole trailer and
\* the right length in it; zstd made of whole frames only.
ValidSource(k, f) ==
  IF k # "zstd"
  THEN LET r == InflateAll(Drop(f, GZ_HDR_SZ))
       IN  /\ r.ret = "Z_STREAM_END"
           /\ Len(r.rest) >= GZ_TLR_SZ
           /\ le32dec(SubSeq(r.rest, 5, 8)) = U32(Len(r.out))
  ELSE LET r == ZstdAll(ZSTD_initDStream, f, <<>>)
       IN  r.ret = 0 /\ r.rest = <<>>

\* ------------------------------------------------------ the state machine
VARIABLES
  kind,       \* which cookie wraps the source: "gzip", "zstd", or "zfile_c"
              \* for the gzip cookie of zfile.c
  file,       \* the bytes of the source file
  ck,         \* the cookie (struct zfile / struct zstdfile) and the position of `in`
  status,     \* "run", or "exit" / "abort" once the process has ended
  delivered,  \* the bytes reads returned to the caller since open or the last rewind
  skipped,    \* the number of bytes seek emulation discarded since then
  errs,       \* the number of read calls that returned -1 since then
  last,       \* the last operation: its arguments and what it returned
  call        \* the callback that is running, its position and its locals

vars == <<kind, file, ck, status, delivered, skipped, errs, last, call>>

\* No callback is running: the stream is at an operation boundary.
NoCall == [pc |-> "idle"]

\* cookie_io_functions_t: the read and seek callbacks of the two cookies
cookie_read(k, f, c, size) ==
  IF k = "gzip" THEN zfile_read(f, c, size)
  ELSE IF k = "zstd" THEN zstdfile_read(f, c, size)
  ELSE zfile_c_read(f, c, size)

cookie_seek(k, f, c, offset, whence) ==
  IF k = "gzip" THEN zfile_seek(f, c, offset, whence)
  ELSE IF k = "zstd" THEN zstdfile_seek(f, c, offset, whence)
  ELSE zfile_c_seek(f, c, offset, whence)

\* The cookie zopenfile / zstdopen hand to fopencookie.
OpenCookie(k) ==
  IF k = "gzip" THEN zfile_zlib_init
  ELSE IF k = "zstd" THEN zstdfile_init
  ELSE zfile_c_init

\* The state after zopenfile / zstdopen returned a wrapped stream.
Init ==
  /\ \/ kind = "gzip" /\ file \in GzFiles
     \/ kind = "zstd" /\ file \in ZstdFiles
  /\ ck = OpenCookie(kind)
  /\ status = "run"
  /\ delivered = <<>>
  /\ skipped = 0
  /\ errs = 0
  /\ last = [op |-> "open", arg |-> 0, whence |-> "-", rv |-> 0, off |-> 0,
             nbytes |-> 0, ev |-> {}]
  /\ call = NoCall

\* The caller reads up to n bytes and r is what the cookie's read returned.
ReadReturns(n, r) ==
  /\ ck' = r.c
  /\ status' = r.st
  /\ delivered' = IF r.st = "run" THEN delivered \o r.data ELSE delivered
  /\ errs' = IF r.st = "run" /\ r.rv < 0 THEN errs + 1 ELSE errs
  /\ last' = [op |-> "read", arg |-> n, whence |-> "-",
              rv |-> IF r.st = "run" THEN r.rv ELSE 0, off |-> 0,
              nbytes |-> IF r.st = "run" THEN Len(r.data) ELSE 0,
              ev |-> r.ev]
  /\ call' = NoCall
  /\ UNCHANGED <<kind, file, skipped>>

Read(n) ==
  /\ status = "run"
  /\ call = NoCall
  /\ \E r \in {cookie_read(kind, file, ck, n)} : ReadReturns(n, r)

\* The caller seeks and r is what the cookie's seek returned.
SeekReturns(offset, whence, r) ==
  /\ ck' = r.c
  /\ status' = r.st
  /\ delivered' = IF r.rewound THEN <<>> ELSE delivered
  /\ skipped' = IF r.rewound THEN 0 ELSE skipped + r.nskip
  /\ errs' = IF r.rewound THEN 0 ELSE errs + r.nerr
  /\ last' = [op |-> "seek", arg |-> offset, whence |-> whence,
              rv |-> IF r.st = "run" THEN r.rv ELSE 0,
              off |-> r.off, nbytes |-> 0, ev |-> r.ev]
  /\ call' = NoCall
  /\ UNCHANGED <<kind, file>>

Seek(offset, whence) ==
  /\ status = "run"
  /\ call = NoCall
  /\ \E r \in {cookie_seek(kind, file, ck, offset, whence)} :
        SeekReturns(offset, whence, r)

Next ==
  \/ \E n \in 1..MaxRead : Read(n)
  \/ \E offset \in (0 - MaxSeek)..MaxSeek,
        whence \in {"SEEK_SET", "SEEK_CUR", "SEEK_END"} : Seek(offset, whence)

Spec == Init /\ [][Next]_vars

\* The trailer checks of the gzip cookie on their own, for streams of any
\* length: the cookie has reached the end of a stream that produced
\* actual_len bytes, all delivered, and `file` holds the 8 trailer bytes the
\* checks are given.  actual_len ranges over values on both sides of the
\* width of uint32_t (as U32 scales it).
ActualLens == {0, 3, 4} \cup {2 ^ 16 + k : k \in {0, 3, 4}} \cup {2 * (2 ^ 16) + 4}
TrailerLens == {0, 3, 4, 2 ^ 16 - 1}

InitTrailer ==
  /\ kind = "gzip"
  /\ file \in {GzTrailer(<<>>, crc, len) : crc \in {0, 77}, len \in TrailerLens}
  /\ ck \in {[zfile_zlib_init EXCEPT !.actual_len = a, !.logic_offset = a,
                                    !.decode_offset = a, !.eof = TRUE]
               : a \in ActualLens}
  /\ status = "finalize"
  /\ delivered = <<>>
  /\ skipped = 0
  /\ errs = 0
  /\ last = [op |-> "open", arg |-> 0, whence |-> "-", rv |-> 0, off |-> 0,
             nbytes |-> 0, ev |-> {}]
  /\ call = NoCall

CheckReturns(r) ==
  /\ ck' = r.c
  /\ status' = IF r.st = "run" THEN "checked" ELSE r.st
  /\ last' = [op |-> "finalize", arg |-> 0, whence |-> "-", rv |-> r.rv,
              off |-> 0, nbytes |-> 0, ev |-> r.ev]
  /\ UNCHANGED <<kind, file, delivered, skipped, errs, call>>

CheckTrailer ==
  /\ status = "finalize"
  /\ \E r \in {zfile_check_trailer(ck, file, 0, <<>>, {})} : CheckReturns(r)

NextTrailer == Next \/ CheckTrailer

SpecTrailer == (Init \/ InitTrailer) /\ [][NextTrailer]_vars

\* Open as a step: the source is any small file, kind says which open is
\* called on it, and the stream, once wrapped, is used as in Spec.
OpenFiles ==
     { Take(GzHeader, k) : k \in {0, 2, 3, 9} }
\cup { Take(ZSTD_MAGICNUMBER, 3) }
\cup { <<31, 139, 9>> \o GzHeader, <<1, 2, 3, 4>>, <<40, 181, 47, 252, 8>> }
\cup { GzHeader,
       GzHeader \o <<2, 1, 9>> \o GzGoodTrailer(<<2, 1, 9>>),
       GzHeader \o <<1, 0, 2, 8>> \o Take(GzGoodTrailer(<<1, 0, 2, 8>>), 3),
       ZSTD_MAGICNUMBER,
       ZSTD_MAGICNUMBER \o <<2, 8>> \o ZSTD_MAGICNUMBER \o <<1, 9>>,
       ZSTD_MAGICNUMBER \o <<2, 1, 1, 1, 1, 1, 9>> }

InitOpen ==
  /\ kind \in {"gzip", "zstd"}
  /\ file \in OpenFiles
  /\ ck = [in_pos |-> 0]
  /\ status = "closed"
  /\ delivered = <<>>
  /\ skipped = 0
  /\ errs = 0
  /\ last = [op |-> "none", arg |-> 0, whence |-> "-", rv |-> 0, off |-> 0,
             nbytes |-> 0, ev |-> {}]
  /\ call = NoCall

OpenReturns(r) ==
  /\ ck' = r.c
  /\ status' = IF r.res = "cookie" THEN "run"
               ELSE IF r.res = "source" THEN "plain" ELSE "failed"
  /\ last' = [op |-> "open", arg |-> 0, whence |-> "-",
              rv |-> IF r.res = "null" THEN 0 - 1 ELSE 0, off |-> 0,
              nbytes |-> 0, ev |-> {r.flag}]
  /\ UNCHANGED <<kind, file, delivered, skipped, errs, call>>

Open ==
  /\ status = "closed"
  /\ \E r \in {IF kind = "gzip" THEN zopenfile(file) ELSE zstdopen(file)} :
        OpenReturns(r)

NextOpen == Open \/ Next

SpecOpen == InitOpen /\ [][NextOpen]_vars

\* The state after zopen of zfile.c returned a wrapped stream, and the
\* behaviours of that cookie under the same callers.
InitZfileC ==
  /\ kind = "zfile_c"
  /\ file \in GzFiles
  /\ ck = OpenCookie(kind)
  /\ status = "run"
  /\ delivered = <<>>
  /\ skipped = 0
  /\ errs = 0
  /\ last = [op |-> "open", arg |-> 0, whence |-> "-", rv |-> 0, off |-> 0,
             nbytes |-> 0, ev |-> {}]
  /\ call = NoCall

SpecZfileC == InitZfileC /\ [][Next]_vars


\* The three cookies under the same callers.
SpecAll == (Init \/ InitZfileC) /\ [][Next]_vars

\* ------------------------------------------------------ the callbacks, loop pass by loop pass
\* One pass of a loop either leaves the callback with the result r or goes
\* round again with the locals s = [c, size, total, buf, ign], ret and ev.
Done(r) == [done |-> TRUE, r |-> r]
Again(s, ret, ev) == [done |-> FALSE, s |-> s, ret |-> ret, ev |-> ev]

\* One pass of the do ... while loop of zfile_read after the drain left the
\* locals s: the checks, the refill and the inflate call.  c1 is the cookie
\* as the refill leaves it and r what inflate returns on c1's input; both
\* are looked at only where the code gets that far.
zfile_read_pass(f, s, c1, r, ret, ev) ==
  IF s.size = 0 THEN Done(zfile_read_after(f, s.c, s.total, s.buf, ev))
  ELSE IF Len(s.c.outbuf) # s.c.outbuf_start
       THEN Done(Result(s.c, 0, s.buf, "abort", ev \cup {"assert_outbuf_empty"}))
  ELSE IF ret = "Z_STREAM_END"
       THEN Done(zfile_read_after(f, [s.c EXCEPT !.eof = TRUE],
                                  s.total, s.buf, ev))
  ELSE IF c1.inbuf = <<>>
       THEN Done(zfile_read_out([s.c EXCEPT !.truncated = TRUE], s.total, s.buf,
                                ev \cup {"no_crc"}))
  ELSE IF r.ret \notin {"Z_OK", "Z_STREAM_END"}
       THEN Done(Result([c1 EXCEPT !.outbuf = <<>>, !.outbuf_start = 0],
                        0, s.buf, "exit", ev \cup {"inflate_error"}))
  ELSE Again([s EXCEPT !.c = zfile_inflated(c1, r)], r.ret, ev \cup {"inflate"})

\* zfile_read up to its loop: the early returns, or the locals the first
\* pass starts with.
zfile_read_enter(c, size) ==
  IF size = 0 THEN Done(Result(c, 0, <<>>, "run", {}))
  ELSE IF c.eof THEN Done(Result(c, 0, <<>>, "run", {}))
  ELSE IF c.truncated THEN Done(zfile_read_out(c, 0, <<>>, {}))
  ELSE IF c.logic_offset - c.decode_offset # 0
       THEN Done(Result(c, 0, <<>>, "abort", {"assert_ignorebytes"}))
  ELSE Again([c |-> c, size |-> size, total |-> 0, buf |-> <<>>,
              ign |-> c.logic_offset - c.decode_offset], "Z_OK", {})

\* One pass of the do ... while loop of zstdfile_read after the drain.
zstdfile_read_pass(f, s, c1, r, ret, ev) ==
  IF s.size = 0 THEN Done(Result(s.c, s.total, s.buf, "run", ev))
  ELSE IF Len(s.c.outbuf) # s.c.outbuf_start
       THEN Done(Result(s.c, 0, s.buf, "abort", ev \cup {"assert_outbuf_empty"}))
  ELSE IF ret = 0 /\ s.c.inbuf = <<>> /\ s.c.in_pos = Len(f)
       THEN Done(Result([s.c EXCEPT !.eof = TRUE], s.total, s.buf, "run", ev))
  ELSE IF c1.inbuf = <<>>
       THEN Done(Result(s.c, 0, s.buf, "exit", ev \cup {"truncated_file"}))
  ELSE IF ZSTD_isError(r.ret)
       THEN Done(Result([c1 EXCEPT !.outbuf = <<>>, !.outbuf_start = 0],
                        0, s.buf, "exit", ev \cup {"zstd_error"}))
  ELSE Again([s EXCEPT !.c = zstdfile_inflated(c1, r)], r.ret,
             ev \cup {"decompress"})

\* zstdfile_read up to its loop.
zstdfile_read_enter(c, size) ==
  IF size = 0 THEN Done(Result(c, 0, <<>>, "run", {}))
  ELSE IF c.eof THEN Done(Result(c, 0, <<>>, "run", {}))
  ELSE IF c.logic_offset - c.decode_offset # 0
       THEN Done(Result(c, 0, <<>>, "abort", {"assert_ignorebytes"}))
  ELSE Again([c |-> c, size |-> size, total |-> 0, buf |-> <<>>,
              ign |-> c.logic_offset - c.decode_offset], 0, {})

cookie_read_enter(k, c, size) ==
  IF k = "gzip" THEN zfile_read_enter(c, size) ELSE zstdfile_read_enter(c, size)

\* "Read more input if empty" of either cookie
cookie_refill(k, f, c) ==
  IF k = "gzip" THEN zfile_refill(f, c) ELSE zstdfile_refill(f, c)

\* The decoder call of either cookie on the input the cookie c1 holds
cookie_decompress(k, c1) ==
  IF k = "gzip" THEN inflate(c1.decomp, c1.inbuf, OutBufSz)
  ELSE ZSTD_decompressStream(c1.decomp, c1.inbuf, OutBufSz)

cookie_read_pass(k, f, s, c1, r, ret, ev) ==
  IF k = "gzip" THEN zfile_read_pass(f, s, c1, r, ret, ev)
  ELSE zstdfile_read_pass(f, s, c1, r, ret, ev)

\* zfile_seek / zstdfile_seek up to the emulation loop: every branch but the
\* forward one returns at once.
cookie_seek_enter(k, f, c, offset, whence) ==
  IF whence \in {"SEEK_SET", "SEEK_CUR"}
     /\ SeekTarget(c, offset, whence) > c.logic_offset
  THEN [done |-> FALSE, new_offset |-> SeekTarget(c, offset, whence)]
  ELSE Done(cookie_seek(k, f, c, offset, whence))

\* The end of the emulation loop when its condition fails: the assertion
\* and the write-back.
cookie_seek_done(k, c, new_offset, ev, nskip) ==
  IF k = "gzip" THEN zfile_seek_done(c, new_offset, ev, nskip, FALSE)
  ELSE zstdfile_seek_done(c, new_offset, ev, nskip, FALSE)

\* A faulty variant of the emulation loop's body: a discard read that
\* returned 0 does not leave the loop.
cookie_seek_pass_noclamp(k, r, new_offset, nskip, ev) ==
  IF r.st # "run"
  THEN Done(SeekResult(r.c, -1, new_offset, r.st, ev \cup r.ev, nskip, 0, FALSE))
  ELSE IF r.rv < 0
  THEN Done(SeekResult(r.c, -1, new_offset, "run", ev \cup r.ev, nskip, 1, FALSE))
  ELSE [done |-> FALSE, c |-> r.c, nskip |-> nskip + r.rv, ev |-> ev \cup r.ev]

\* The body of the emulation loop after its discard read returned r: an
\* error or a fatal end leaves the seek, 0 clamps the target and leaves the
\* loop, a positive count goes round again.
cookie_seek_pass(k, r, new_offset, nskip, ev) ==
  IF r.st # "run"
  THEN Done(SeekResult(r.c, -1, new_offset, r.st, ev \cup r.ev, nskip, 0, FALSE))
  ELSE IF r.rv < 0
  THEN Done(SeekResult(r.c, -1, new_offset, "run", ev \cup r.ev, nskip, 1, FALSE))
  ELSE IF r.rv = 0
  THEN IF ~r.c.eof
       THEN Done(SeekResult(r.c, -1, new_offset, "abort",
                            ev \cup r.ev \cup {"assert_eof"}, nskip, 0, FALSE))
       ELSE Done(cookie_seek_done(k, r.c, r.c.logic_offset,
                                  ev \cup r.ev \cup {"clamped"}, nskip))
  ELSE [done |-> FALSE, c |-> r.c, nskip |-> nskip + r.rv, ev |-> ev \cup r.ev]

\* The locals of a read that is inside its loop.
ReadLocals == [c |-> ck, size |-> call.size, total |-> call.total,
               buf |-> call.buf, ign |-> call.ign]

\* The read goes round its loop again: o holds the locals after the pass.
ReadAgain(o) ==
  /\ ck' = o.s.c
  /\ call' = [call EXCEPT !.size = o.s.size, !.total = o.s.total,
                          !.buf = o.s.buf, !.ign = o.s.ign,
                          !.ret = o.ret, !.rev = o.ev]
  /\ UNCHANGED <<kind, file, status, delivered, skipped, errs, last>>

\* The caller calls read: it returns from its early checks or enters its loop.
ReadEntered(n, o) ==
  IF o.done THEN ReadReturns(n, o.r)
  ELSE /\ call' = [pc |-> "read", arg |-> n, size |-> o.s.size,
                   total |-> o.s.total, buf |-> o.s.buf, ign |-> o.s.ign,
                   ret |-> o.ret, rev |-> o.ev]
       /\ UNCHANGED <<kind, file, ck, status, delivered, skipped, errs, last>>

CallRead(n) ==
  /\ status = "run"
  /\ call.pc = "idle"
  /\ \E o \in {cookie_read_enter(kind, ck, n)} : ReadEntered(n, o)

\* One pass of the loop of a read the caller made.
ReadPassed(o) == IF o.done THEN ReadReturns(call.arg, o.r) ELSE ReadAgain(o)

ReadPass ==
  /\ call.pc = "read"
  /\ \E s \in {DrainOutput(ReadLocals)} :
     \E c1 \in {cookie_refill(kind, file, s.c)} :
     \E r \in {cookie_decompress(kind, c1)} :
     \E o \in {cookie_read_pass(kind, file, s, c1, r, call.ret, call.rev)} :
        ReadPassed(o)

\* The caller calls seek: it returns at once or enters the emulation loop.
SeekEntered(offset, whence, o) ==
  IF o.done THEN SeekReturns(offset, whence, o.r)
  ELSE /\ call' = [pc |-> "skip", arg |-> offset, whence |-> whence,
                   new_offset |-> o.new_offset, nskip |-> 0, ev |-> {}]
       /\ UNCHANGED <<kind, file, ck, status, delivered, skipped, errs, last>>

CallSeek(offset, whence) ==
  /\ status = "run"
  /\ call.pc = "idle"
  /\ \E o \in {cookie_seek_enter(kind, file, ck, offset, whence)} :
        SeekEntered(offset, whence, o)

\* The discard read of the emulation loop returned r.
SkipRead(o) ==
  IF o.done THEN SeekReturns(call.arg, call.whence, o.r)
  ELSE /\ ck' = o.c
       /\ call' = [pc |-> "skip", arg |-> call.arg, whence |-> call.whence,
                   new_offset |-> call.new_offset, nskip |-> o.nskip,
                   ev |-> o.ev]
       /\ UNCHANGED <<kind, file, status, delivered, skipped, errs, last>>

\* The discard read was called: o is what its early checks gave.
SkipEntered(o) ==
  IF o.done
  THEN \E q \in {cookie_seek_pass(kind, o.r, call.new_offset, call.nskip,
                                  call.ev)} : SkipRead(q)
  ELSE /\ call' = [pc |-> "skip_read", arg |-> call.arg,
                   whence |-> call.whence, new_offset |-> call.new_offset,
                   nskip |-> call.nskip, ev |-> call.ev,
                   size |-> o.s.size, total |-> o.s.total, buf |-> o.s.buf,
                   ign |-> o.s.ign, ret |-> o.ret, rev |-> o.ev]
       /\ UNCHANGED <<kind, file, ck, status, delivered, skipped, errs, last>>

\* The test of the emulation loop: the seek ends, or the next discard read
\* is called.
SkipTest ==
  /\ call.pc = "skip"
  /\ IF call.new_offset > ck.logic_offset
     THEN \E o \in {cookie_read_enter(kind, ck,
                      Min(SeekBufSz, call.new_offset - ck.logic_offset))} :
             SkipEntered(o)
     ELSE \E r \in {cookie_seek_done(kind, ck, call.new_offset, call.ev,
                                     call.nskip)} :
             SeekReturns(call.arg, call.whence, r)

\* One pass of the loop of a discard read.
SkipPassed(o) ==
  IF o.done
  THEN \E q \in {cookie_seek_pass(kind, o.r, call.new_offset, call.nskip,
                                  call.ev)} : SkipRead(q)
  ELSE ReadAgain(o)

SkipPass ==
  /\ call.pc = "skip_read"
  /\ \E s \in {DrainOutput(ReadLocals)} :
     \E c1 \in {cookie_refill(kind, file, s.c)} :
     \E r \in {cookie_decompress(kind, c1)} :
     \E o \in {cookie_read_pass(kind, file, s, c1, r, call.ret, call.rev)} :
        SkipPassed(o)

\* zfile_close / zstdfile_close: the decoder, the source and the cookie are
\* released and 0 is returned.
CallClose ==
  /\ status = "run"
  /\ call.pc = "idle"
  /\ call' = [pc |-> "close"]
  /\ UNCHANGED <<kind, file, ck, status, delivered, skipped, errs, last>>

CloseReturns ==
  /\ call.pc = "close"
  /\ status' = "closed"
  /\ call' = NoCall
  /\ last' = [op |-> "close", arg |-> 0, whence |-> "-", rv |-> 0, off |-> 0,
              nbytes |-> 0, ev |-> {}]
  /\ UNCHANGED <<kind, file, ck, delivered, skipped, errs>>

\* A callback that was entered keeps running: the stream is used by one
\* thread and no callback waits for anything but its source.
Running == ReadPass \/ SkipTest \/ SkipPass \/ CloseReturns

NextSteps ==
  \/ \E n \in 1..MaxRead : CallRead(n)
  \/ \E offset \in (0 - MaxSeek)..MaxSeek,
        whence \in {"SEEK_SET", "SEEK_CUR", "SEEK_END"} : CallSeek(offset, whence)
  \/ CallClose
  \/ ReadPass
  \/ SkipTest
  \/ SkipPass
  \/ CloseReturns

\* The sources the callbacks are stepped through: of each cookie a complete
\* one, one cut in its data, one cut after its data and a corrupt one.
StepFiles ==
  { GzHeader \o <<2, 1, 9>> \o GzGoodTrailer(<<2, 1, 9>>),
    GzHeader \o <<1, 0, 2, 8>> \o Take(GzGoodTrailer(<<1, 0, 2, 8>>), 3),
    GzHeader \o <<2, 1>>,
    GzHeader \o <<2, 7, 9>> \o GzTrailer(<<2, 7, 9>>, 0, 2),
    ZSTD_MAGICNUMBER \o <<2, 8>> \o ZSTD_MAGICNUMBER \o <<1, 9>>,
    ZSTD_MAGICNUMBER \o <<2, 1>>,
    ZSTD_MAGICNUMBER \o <<2, 8>> \o <<40, 181>>,
    ZSTD_MAGICNUMBER \o <<2, 7>> }

InitSteps == Init /\ file \in StepFiles

SpecSteps == InitSteps /\ [][NextSteps]_vars /\ WF_vars(Running)

\* A caller that only reads, with requests of any sizes.
NextReads == \E n \in 1..MaxRead : Read(n)

SpecReads == Init /\ [][NextReads]_vars

\* ------------------------------------------------------ the claims
\* The decode engine's complete output for the source of this behaviour.
Ref == DecodedOutput(kind, file)

IsPrefix(a, b) == Len(a) <= Len(b) /\ a = SubSeq(b, 1, Len(a))

\* The step just taken was a read / a seek by the caller.
ReadStep == last'.op = "read"
SeekStep == last'.op = "seek"
\* The resolved target of the seek just taken, from the state it started in.
StepTarget == SeekTarget(ck, last'.arg, last'.whence)

\* C1: on a valid, complete gzip or zstd source read without seek emulation,
\* the bytes the reads returned are at every moment a prefix of the decode
\* engine's complete output, no read fails or ends the process, and a read
\* returns 0 only once the whole output has been returned.
C1_RoundTrip ==
  (ValidSource(kind, file) /\ skipped = 0) =>
     /\ status = "run"
     /\ errs = 0
     /\ IsPrefix(delivered, Ref)
     /\ (last.op = "read" /\ last.rv = 0 => delivered = Ref)

C1_Witness ==
  /\ ValidSource(kind, file) /\ skipped = 0
  /\ last.op = "read" /\ last.rv = 0
  /\ delivered = Ref /\ Len(Ref) = 4

\* C2: a read(n), n >= 1, returns k bytes with 1 <= k <= n, or 0, or an
\* error; 0 only with end_of_stream set and the output buffer drained; an
\* error only with the truncated flag set.
C2_ReadContract ==
  (last.op = "read" /\ status = "run") =>
     \/ last.rv \in 1..last.arg /\ last.nbytes = last.rv
     \/ /\ last.rv = 0 /\ last.nbytes = 0
        /\ ck.eof /\ Len(ck.outbuf) = ck.outbuf_start
     \/ last.rv = 0 - 1 /\ last.nbytes = 0 /\ ck.truncated

C2_Witness ==
  /\ last.op = "read" /\ status = "run"
  /\ last.rv = 1 /\ last.arg = 3 /\ ~ck.eof /\ ck.truncated

\* C3: a seek that resolves to offset 0, from any state, succeeds, reports
\* offset 0 and leaves the cookie (and the source position in it) equal to
\* the one open built, with nothing delivered, skipped or failed since.
C3_RewindIsFresh ==
  [][ (SeekStep /\ last'.whence \in {"SEEK_SET", "SEEK_CUR"} /\ StepTarget = 0) =>
        /\ status' = "run" /\ last'.rv = 0 /\ last'.off = 0
        /\ ck' = OpenCookie(kind)
        /\ delivered' = <<>> /\ skipped' = 0 /\ errs' = 0 ]_vars

C3_Witness ==
  /\ last.op = "seek" /\ last.whence = "SEEK_CUR" /\ last.arg = 0 - 4
  /\ last.rv = 0 /\ ck = OpenCookie(kind) /\ status = "run"

\* C4: at every operation boundary logic_offset is the number of bytes the
\* reads delivered plus the number of bytes seek emulation discarded since
\* open or the last rewind.
C4_LogicOffset ==
  status = "run" => ck.logic_offset = Len(delivered) + skipped

C4_Witness ==
  /\ status = "run" /\ Len(delivered) = 2 /\ skipped = 2 /\ ck.logic_offset = 4
  /\ last.op = "read"

\* C5: on a valid source a SEEK_SET or SEEK_CUR whose resolved target exceeds
\* the decompressed length L succeeds, reports L, and leaves logic_offset = L
\* and end_of_stream set, from any state.
C5_SeekPastEnd ==
  [][ (/\ ValidSource(kind, file) /\ SeekStep
       /\ last'.whence \in {"SEEK_SET", "SEEK_CUR"}
       /\ StepTarget > Len(Ref)) =>
        /\ status' = "run" /\ last'.rv = 0 /\ last'.off = Len(Ref)
        /\ ck'.logic_offset = Len(Ref) /\ ck'.eof ]_vars

C5_Witness ==
  /\ ValidSource(kind, file) /\ last.op = "seek" /\ last.whence = "SEEK_CUR"
  /\ last.rv = 0 /\ last.off = Len(Ref) /\ Len(delivered) = 1 /\ skipped = 3
  /\ last.arg = 5 /\ ck.eof

\* C6: a seek with SEEK_END, with a negative resolved target, or with a
\* resolved target t, 0 < t < logic_offset, returns an error and changes
\* nothing of the stream.
C6_RejectedSeek ==
  [][ (SeekStep /\ (\/ last'.whence = "SEEK_END"
                    \/ StepTarget < 0
                    \/ (0 < StepTarget /\ StepTarget < ck.logic_offset))) =>
        /\ last'.rv = 0 - 1
        /\ ck' = ck /\ status' = status
        /\ delivered' = delivered /\ skipped' = skipped /\ errs' = errs ]_vars

C6_Witness ==
  /\ last.op = "seek" /\ last.whence = "SEEK_SET" /\ last.rv = 0 - 1
  /\ 0 < last.arg /\ last.arg < ck.logic_offset
  /\ Len(ck.outbuf) > ck.outbuf_start /\ status = "run"

\* C7: the assertion logic_offset == new_offset at the end of seek never
\* fails, and a seek that succeeds leaves logic_offset equal to the offset it
\* reports.
C7_SeekOffset ==
  last.op = "seek" =>
     /\ "assert_offset" \notin last.ev
     /\ (status = "run" /\ last.rv = 0 => ck.logic_offset = last.off)

C7_Witness ==
  /\ last.op = "seek" /\ status = "run" /\ last.rv = 0
  /\ "clamped" \in last.ev /\ last.whence = "SEEK_SET"
  /\ ck.logic_offset = last.off /\ last.off < last.arg /\ last.off > 0

\* C8: on a gzip source cut inside the deflate body, no read returns 0
\* before an error was returned, a read that records the truncation returns
\* its partial bytes when it has any, the read issued once every decoded byte
\* is out returns the error with the truncated flag set, and when the error
\* is returned every byte decoded before the cut has been handed out.
C8_TruncatedBody ==
  [][ (GzBodyTruncated(file) /\ kind = "gzip" /\ ReadStep) =>
        /\ status' = "run"
        /\ (errs = 0 => last'.rv # 0)
        /\ (~ck.truncated /\ ck'.truncated /\ last'.rv = 0 - 1 =>
               ck'.logic_offset = ck.logic_offset)
        /\ (ck.logic_offset = Len(Ref) /\ errs = 0 =>
               last'.rv = 0 - 1 /\ ck'.truncated)
        /\ (last'.rv = 0 - 1 =>
               /\ ck'.logic_offset = Len(Ref)
               /\ ck'.actual_len = Len(Ref)
               /\ (skipped' = 0 => delivered' = Ref)) ]_vars

C8_Witness ==
  /\ GzBodyTruncated(file) /\ kind = "gzip"
  /\ last.op = "read" /\ last.rv = 0 - 1 /\ ck.truncated
  /\ delivered = Ref /\ Len(Ref) = 3 /\ skipped = 0

\* C9: whenever a gzip read records truncation (compressed data ran out, or
\* fewer than 8 trailer bytes), it returns the error if it delivered no
\* bytes; otherwise it returns the bytes, and the next read returns the error.
C9_TruncationReported ==
  [][ (kind = "gzip" /\ ReadStep) =>
        /\ (~ck.truncated /\ ck'.truncated /\ last'.nbytes = 0 =>
               last'.rv = 0 - 1)
        /\ (ck.truncated /\ errs = 0 => last'.rv = 0 - 1) ]_vars

\* C10 as the specification states it: with the decoder at stream end and
\* fewer than 8 trailer bytes left, every read issued after the last data
\* byte returns 0 with end_of_stream set, and no read returns an error.
C10_CleanEof ==
  [][ (GzLostTrailer(file) /\ kind = "gzip" /\ ReadStep) =>
        /\ last'.rv # 0 - 1
        /\ (ck.logic_offset = Len(Ref) => last'.rv = 0 /\ ck'.eof) ]_vars

\* C10, amended: with the decoder at stream end and fewer than 8 trailer
\* bytes left, every decoded byte is delivered; a read issued after the last
\* data byte sets end_of_stream and returns 0, except that the first such
\* read returns the truncation error when end_of_stream was not yet set; once
\* end_of_stream is set every read returns 0, so at most one read fails.
C10_LostTrailer ==
  [][ (GzLostTrailer(file) /\ kind = "gzip" /\ ReadStep) =>
        /\ status' = "run"
        /\ (last'.nbytes = 0 => ck.logic_offset = Len(Ref))
        /\ (ck.logic_offset = Len(Ref) =>
               /\ ck'.eof
               /\ last'.rv = (IF ck.eof THEN 0 ELSE 0 - 1))
        /\ (last'.rv = 0 - 1 => errs = 0 /\ errs' = 1 /\ ck'.truncated)
        /\ (skipped' = 0 /\ ck'.logic_offset = Len(Ref) => delivered' = Ref) ]_vars

C10_Witness ==
  /\ GzLostTrailer(file) /\ kind = "gzip"
  /\ last.op = "read" /\ last.rv = 0 - 1 /\ ck.eof /\ ck.truncated
  /\ delivered = Ref /\ Len(Ref) = 4 /\ skipped = 0

\* What follows the deflate body in the gzip source of this behaviour, and
\* the two fields of a complete trailer there.
GzRest == InflateAll(Drop(file, GZ_HDR_SZ)).rest
GzTrailerCrc == le32dec(SubSeq(GzRest, 1, 4))
GzTrailerLen == le32dec(SubSeq(GzRest, 5, 8))
\* The read just taken ran the trailer checks on a complete trailer whose
\* length field matches.
FinalizeStep ==
  /\ kind # "zstd" /\ ReadStep /\ "trailer" \in last'.ev
  /\ Len(GzRest) >= GZ_TLR_SZ /\ GzTrailerLen = U32(Len(Ref))

\* C11: when a gzip read checks a complete trailer whose length matches, the
\* checksum does not change the result: the read returns its bytes or 0, all
\* decoded data has been delivered, a checksum field of 0 raises no checksum
\* warning and a non-zero one that differs raises the mismatch warning only.
C11_ChecksumHarmless ==
  [][ FinalizeStep =>
        /\ status' = "run"
        /\ last'.rv >= 0 /\ last'.rv = last'.nbytes
        /\ ck'.logic_offset = Len(Ref)
        /\ (skipped' = 0 => delivered' = Ref)
        /\ (GzTrailerCrc = 0 =>
              last'.ev \cap {"crc_mismatch", "crc_good"} = {})
        /\ (GzTrailerCrc # 0 /\ GzTrailerCrc # crc32(0, Ref) =>
              "crc_mismatch" \in last'.ev) ]_vars

\* C12: when a gzip read checks a complete trailer, the stored length is
\* compared with actual_len modulo the width of uint32_t: a difference ends
\* the process (no further operation runs), equality passes, also for an
\* actual_len beyond that width; and in a read that reaches the checks
\* actual_len is the number of bytes the decoder produced since open or the
\* last rewind.
C12_TrailerLength ==
  [][ /\ (/\ kind = "gzip" /\ ReadStep /\ "trailer" \in last'.ev
          /\ Len(GzRest) >= GZ_TLR_SZ) =>
            /\ ck'.actual_len = Len(Ref)
            /\ ck'.actual_len = ck'.logic_offset
            /\ (status' = "run" => ck'.actual_len = Len(delivered') + skipped')
            /\ (status' = "exit") = (GzTrailerLen # U32(Len(Ref)))
            /\ (status' = "run") = (GzTrailerLen = U32(Len(Ref)))
      /\ (last'.op = "finalize") =>
            /\ (status' = "exit") =
                  (ck.actual_len % (2 ^ 16) # le32dec(SubSeq(file, 5, 8)))
            /\ (status' = "checked") =
                  (ck.actual_len % (2 ^ 16) = le32dec(SubSeq(file, 5, 8)))
            /\ ck'.actual_len = ck.actual_len ]_vars

C12_Witness ==
  /\ last.op = "finalize" /\ status = "checked"
  /\ ck.actual_len = 2 * (2 ^ 16) + 4 /\ le32dec(SubSeq(file, 5, 8)) = 4

\* C13: the zstd cookie sets eof only when the decoder is between frames
\* with nothing pending (its last decode step returned 0), the input buffer
\* is consumed and the source is at its end, however the reads are split;
\* and on a source of whole frames no read returns 0 before all frames'
\* output, in order, has been returned.
C13_ZstdEof ==
  [][ kind = "zstd" =>
        /\ (~ck.eof /\ ck'.eof) =>
              /\ ck'.decomp.st = "hdr" /\ ck'.decomp.n = 0
              /\ ck'.inbuf = <<>>
              /\ ck'.in_pos = Len(file)
        /\ (ReadStep /\ ValidSource(kind, file) /\ skipped' = 0
              /\ last'.rv = 0) => delivered' = Ref ]_vars

RewindStep ==
  SeekStep /\ last'.whence \in {"SEEK_SET", "SEEK_CUR"} /\ StepTarget = 0

\* C15 as the specification states it: eof and truncated are never both
\* true.
C15_Exclusive == ~(ck.eof /\ ck.truncated)

\* C15, amended: eof and truncated may both be true (a read that returns the
\* truncation error sets eof as well, and a short trailer is found with eof
\* already set); each flag, once true, stays true until a rewind, so it
\* becomes true at most once between rewinds; a rewind clears both.
C15_Flags ==
  [][ status = "run" /\ status' = "run" =>
        /\ (RewindStep => ~ck'.eof /\ ~ck'.truncated)
        /\ (~RewindStep /\ ck.eof => ck'.eof)
        /\ (~RewindStep /\ ck.truncated => ck'.truncated)
        /\ (ReadStep /\ last'.rv = 0 - 1 => ck'.eof /\ ck'.truncated)
        /\ (ReadStep /\ "lost_trailer" \in last'.ev =>
               ck'.eof /\ ck'.truncated) ]_vars

C15_Witness ==
  /\ kind = "gzip" /\ status = "run" /\ ck.eof /\ ck.truncated
  /\ last.op = "read" /\ last.rv = 1 /\ "lost_trailer" \in last.ev

\* C16: once eof is true, every read returns 0 and delivers nothing, reads
\* nothing from the source and runs no decode step, and leaves the cookie
\* (logic_offset, decode_offset, actual_len included) as it was; so does
\* every seek other than a rewind.  Gzip and zstd cookies alike.
C16_EofIsFinal ==
  [][ (status = "run" /\ ck.eof) =>
        /\ ReadStep =>
              /\ status' = "run"
              /\ last'.rv = 0 /\ last'.nbytes = 0 /\ last'.ev = {}
              /\ delivered' = delivered
              /\ ck' = ck
        /\ (SeekStep /\ ~RewindStep) =>
              /\ status' = "run" /\ ck' = ck /\ skipped' = skipped
              /\ last'.ev \cap {"inflate", "decompress", "trailer"} = {} ]_vars

C16_Witness ==
  /\ status = "run" /\ ck.eof /\ ~ck.truncated
  /\ last.op = "read" /\ last.rv = 0 /\ last.ev = {}
  /\ Len(delivered) = 4

C18_CursorWithin ==
  /\ ck.outbuf_start <= Len(ck.outbuf)
  /\ ck.within

C18_Witness ==
  /\ last.op = "read" /\ last.rv = 1 /\ status = "run"
  /\ ck.outbuf_start = 1 /\ Len(ck.outbuf) = 2 /\ ck.within
  /\ ck.logic_offset = 3

\* C19: the gzip trailer block runs at most once between open (or a rewind)
\* and the next rewind: it runs only in a call that entered with eof clear
\* and saw the decoder's stream end with the output buffer drained, that call
\* sets eof, and while eof stays set (until a rewind) it does not run again;
\* and a read returns 0 with the truncated flag clear only if the trailer
\* block ran in that read or eof was set before it.
C19_FinalizeOnce ==
  [][ kind = "gzip" =>
        /\ "trailer" \in last'.ev =>
              /\ ~ck.eof /\ ck'.eof
              /\ ck'.decomp.st = "done"
              /\ ck'.outbuf_start = Len(ck'.outbuf)
              /\ ck'.logic_offset = ck'.actual_len
        /\ (ck.eof /\ ~RewindStep) => (ck'.eof /\ "trailer" \notin last'.ev)
        /\ (~ck.eof /\ ck'.eof /\ ~ck'.truncated) => "trailer" \in last'.ev
        /\ (ReadStep /\ status' = "run" /\ last'.rv = 0 /\ ~ck'.truncated) =>
              (ck'.eof /\ (ck.eof \/ "trailer" \in last'.ev)) ]_vars

C19_Witness ==
  /\ kind = "gzip" /\ status = "run" /\ last.op = "read"
  /\ "trailer" \in last.ev /\ "crc_good" \in last.ev
  /\ ck.eof /\ ~ck.truncated /\ last.rv = 0

\* C20: the assertion ignorebytes == 0 (logic_offset - decode_offset) at
\* the entry of read never fails, in the three cookies, for the reads of the
\* caller and the discard reads of seek emulation, after rewinds and after a
\* recorded truncation: the two offsets are equal in every reachable state.
C20_NoIgnoreBytes ==
  /\ "assert_ignorebytes" \notin last.ev
  /\ ck.logic_offset - ck.decode_offset = 0

C20_Witness ==
  /\ kind = "gzip" /\ ck.truncated /\ last.op = "read" /\ last.rv = 0 - 1
  /\ skipped = 2 /\ Len(delivered) = 1
  /\ ck.logic_offset - ck.decode_offset = 0

\* C21: in forward-seek emulation a discard read returns 0 only with eof
\* set, so the assertion on eof before the clamp never fails and the process
\* is not aborted there, in the three cookies and for every source.
C21_ClampAssertion ==
  /\ "assert_eof" \notin last.ev
  /\ (last.op = "seek" /\ "clamped" \in last.ev => ck.eof)

\* C22: with a finite source, every read, every seek (the emulation of a
\* forward seek past the end of the stream or into a truncated region
\* included) and close, once called, returns or ends the process: neither
\* the refill loop of read nor the discard loop of seek runs forever.
C22_Terminates == (call.pc # "idle") ~> (call.pc = "idle")

\* A seek that discarded through more than one discard read, ran into the
\* end of a truncated stream and returned.
C22_Witness ==
  /\ call.pc = "idle"
  /\ last.op = "seek"
  /\ skipped > SeekBufSz
  /\ ck.truncated \/ "clamped" \in last.ev
  /\ ~ValidSource(kind, file)

\* C23: whenever a decode step is about to put the output buffer and its
\* cursor back to the buffer's start, the buffer holds no undelivered byte:
\* the assertion before the reset never fails, and every byte decoded so far
\* was delivered or discarded by a seek or still waits in the buffer; in both
\* cookies, whatever reads, seeks and rewinds came before.
C23_OutputDrained ==
  /\ "assert_outbuf_empty" \notin last.ev
  /\ status = "run" =>
       ck.actual_len = Len(delivered) + skipped
                         + (Len(ck.outbuf) - ck.outbuf_start)

\* A read after a seek emulation that took more than one decode step, so
\* that the buffer was refilled after it had held data.
C23_Witness ==
  /\ status = "run"
  /\ last.op = "read"
  /\ last.nbytes > OutBufSz
  /\ skipped > 0

\* C24: at every operation boundary actual_len = logic_offset + (bytes
\* produced into the output buffer - output cursor): every byte the decoder
\* produced since open or the last rewind is counted once in actual_len and,
\* in the gzip cookie, folded once and in order into the running checksum;
\* a decoder called again by a later read after it reported the end of the
\* stream adds nothing.
C24_ActualLen ==
  status = "run" =>
    /\ ck.actual_len = ck.logic_offset + (Len(ck.outbuf) - ck.outbuf_start)
    /\ ck.actual_len <= Len(Ref)
    /\ kind = "gzip" => ck.crc = crc32(0, Take(Ref, ck.actual_len))

\* All the data was delivered by earlier reads, the last of which got the
\* decoder's end of stream; this read called the decoder again and returned 0.
C24_Witness ==
  /\ status = "run"
  /\ kind = "gzip"
  /\ last.op = "read" /\ last.rv = 0 /\ "inflate" \in last.ev
  /\ ck.decomp.st = "done"
  /\ Len(delivered) = Len(Ref) /\ Len(Ref) > OutBufSz
  /\ UnitFinal(file[GZ_HDR_SZ + 3]) /\ UnitYield(file[GZ_HDR_SZ + 3]) > 0

\* C25: on the gzip stream at most one read (of the caller or of a seek's
\* emulation) returns the truncation error between open or a rewind and the
\* next rewind: the read that returns it sets eof with truncated, every
\* later read returns 0 and delivers nothing, the two flags stay set through
\* reads and other seeks, and a rewind to 0 clears both.
C25_OneTruncationError ==
  [][ kind = "gzip" /\ status = "run" /\ status' = "run" =>
        /\ errs' <= 1
        /\ (errs' > errs => ck'.eof /\ ck'.truncated)
        /\ (errs = 1 /\ ReadStep =>
              /\ last'.rv = 0 /\ last'.nbytes = 0
              /\ delivered' = delivered
              /\ ck'.eof /\ ck'.truncated)
        /\ (errs = 1 /\ SeekStep /\ ~RewindStep =>
              errs' = 1 /\ ck'.eof /\ ck'.truncated)
        /\ (RewindStep => errs' = 0 /\ ~ck'.eof /\ ~ck'.truncated) ]_vars

\* A read after the one that returned the truncation error: it returned 0.
C25_Witness ==
  /\ kind = "gzip" /\ status = "run"
  /\ errs = 1
  /\ last.op = "read" /\ last.rv = 0
  /\ ck.eof /\ ck.truncated
  /\ delivered # <<>>

\* How a stream that is only read has ended: the process has ended, a read
\* has returned the error, or a read has returned 0.
Ended == status # "run" \/ errs > 0 \/ (last.op = "read" /\ last.rv = 0)
Outcome ==
  IF status # "run" THEN "fatal" ELSE IF errs > 0 THEN "error" ELSE "eof"

\* A second stream over the source f, read to its end with requests of the
\* one size n: the bytes it delivers and how it ends.
RECURSIVE ReadToEnd(_, _, _, _, _)
ReadToEndGot(k, f, r, n, out) ==
  IF r.st # "run" THEN [out |-> out, end |-> "fatal"]
  ELSE IF r.rv < 0 THEN [out |-> out, end |-> "error"]
  ELSE IF r.rv = 0 THEN [out |-> out, end |-> "eof"]
  ELSE ReadToEnd(k, f, r.c, n, out \o r.data)

ReadToEnd(k, f, c, n, out) == ReadToEndGot(k, f, cookie_read(k, f, c, n), n, out)

\* C26: for a fixed source the bytes delivered and the way the stream ends
\* (clean EOF, truncation error, fatal end of the process) do not depend on
\* the sizes of the read requests: a stream read to its end with requests of
\* any sizes ends as the stream over the same source read one byte at a
\* time does, and unless the process ended has delivered the same bytes;
\* gzip and zstd cookies alike.
C26_ChunkIndependent ==
  Ended =>
    \A e \in {ReadToEnd(kind, file, OpenCookie(kind), 1, <<>>)} :
      /\ Outcome = e.end
      /\ Outcome # "fatal" => delivered = e.out

====
